---- MODULE Spec2Model ----
(***************************************************************************)
(* vid2script: a video is cut into chunks (video_chunker.py), each chunk's *)
(* frames are sent to the Claude API (claude_runner.py) with the dialogue  *)
(* generated so far as context (generate_transcript.py, prompt_builder.py) *)
(* and the resulting transcript is written (writer.py).                    *)
(*                                                                         *)
(* Times are Python floats in the source.  They are modelled as exact      *)
(* rationals counted in ticks of 1/TicksPerSecond second.  Strings are     *)
(* sequences of characters; the characters with a meaning to the code are  *)
(* "SP" (space), "NL" (\n), "CR" (\r) and "BQ" (backquote).                *)
(***************************************************************************)
EXTENDS Integers, Sequences, FiniteSets, TLC

\* ---------------------------------------------------------------- bounds
MaxFrames == 4
MaxChunkDuration == 3
MaxFramesPerChunk == 2
MaxRetries == 3
MaxRetryDelay == 2
MaxVideos == 2
MaxSeconds == 22
MaxContextLines == 10
MaxLines == 4

TicksPerSecond == 2

\* ------------------------------------------------------- Python strings
None == <<"@None">>

Whitespace == {"SP", "NL", "CR"}

RECURSIVE LStrip(_)
LStrip(s) ==
    IF s # <<>> /\ Head(s) \in Whitespace THEN LStrip(Tail(s)) ELSE s

RECURSIVE RStrip(_)
RStrip(s) ==
    IF s # <<>> /\ s[Len(s)] \in Whitespace
    THEN RStrip(SubSeq(s, 1, Len(s) - 1))
    ELSE s

\* str.strip()
Strip(s) == RStrip(LStrip(s))

\* str.split('\n'): always at least one (possibly empty) piece
RECURSIVE SplitNL(_)
SplitNL(s) ==
    IF s = <<>> THEN << <<>> >>
    ELSE LET rest == SplitNL(Tail(s))
         IN  IF Head(s) = "NL"
             THEN << <<>> >> \o rest
             ELSE << <<Head(s)>> \o Head(rest) >> \o Tail(rest)

\* '\n'.join(lines)
RECURSIVE JoinNL(_)
JoinNL(lines) ==
    IF lines = <<>> THEN <<>>
    ELSE IF Len(lines) = 1 THEN Head(lines)
    ELSE Head(lines) \o <<"NL">> \o JoinNL(Tail(lines))

\* s.replace('\r\n', '\n').replace('\r', '\n')
RECURSIVE ReplaceCRLF(_)
ReplaceCRLF(s) ==
    IF s = <<>> THEN <<>>
    ELSE IF Len(s) >= 2 /\ s[1] = "CR" /\ s[2] = "NL"
         THEN <<"NL">> \o ReplaceCRLF(SubSeq(s, 3, Len(s)))
         ELSE <<Head(s)>> \o ReplaceCRLF(Tail(s))

RECURSIVE ReplaceCR(_)
ReplaceCR(s) ==
    IF s = <<>> THEN <<>>
    ELSE <<(IF Head(s) = "CR" THEN "NL" ELSE Head(s))>> \o ReplaceCR(Tail(s))

NormalizeLineEndings(s) == ReplaceCR(ReplaceCRLF(s))

\* s.startswith('```')
StartsWithFence(s) ==
    Len(s) >= 3 /\ s[1] = "BQ" /\ s[2] = "BQ" /\ s[3] = "BQ"

\* [line.strip() for line in lines if line.strip()]
RECURSIVE StripNonBlank(_)
StripNonBlank(lines) ==
    IF lines = <<>> THEN <<>>
    ELSE LET l == Strip(Head(lines))
         IN  (IF l # <<>> THEN <<l>> ELSE <<>>) \o StripNonBlank(Tail(lines))

\* ClaudeRunner._clean_response
CleanResponse(response_text) ==
    IF response_text = <<>> THEN <<>>
    ELSE LET stripped == Strip(response_text)
             lines    == SplitNL(stripped)
             unfenced == IF StartsWithFence(stripped) /\ Len(lines) > 2
                         THEN JoinNL(SubSeq(lines, 2, Len(lines) - 1))
                         ELSE stripped
         IN  JoinNL(StripNonBlank(SplitNL(NormalizeLineEndings(unfenced))))


\* --------------------------------------------------------------- state
VARIABLES
    chunk_duration,         \* VideoChunker.chunk_duration, in ticks
    frames_per_chunk,       \* VideoChunker.frames_per_chunk
    max_retries,            \* ClaudeRunner.max_retries
    retry_delay,            \* ClaudeRunner.retry_delay
    hasDuration,            \* do the chunk objects expose a duration attribute
    video,                  \* the file at video_path, as cv2 reports it
    pc,                     \* position of process_single_video
    cap,                    \* cv2.VideoCapture: "none", "unopened", "open", "released"
    fps,                    \* chunk_video: fps
    duration,               \* chunk_video: duration, in ticks
    current_time,           \* chunk_video: current_time, in ticks
    chunks,                 \* chunk_video: chunks
    walked,                 \* spans [start,end] of every chunk the walk built
    sampled,                \* timestamps the walk sampled, chunk by chunk
    video_chunks,           \* process_single_video: video_chunks
    idx,                    \* position in video_chunks of the loop's chunk
    full_transcript,        \* process_single_video: full_transcript
    all_previous_dialogue,  \* process_single_video: all_previous_dialogue
    dialogue,               \* value generate_dialogue returned for the chunk
    attempt,                \* _call_claude_with_retry: attempt
    api_calls,              \* client.messages.create calls of the current call
    outcome,                \* what the last client.messages.create call did
    sleep_time,             \* argument of the pending time.sleep, 0 if none
    delays,                 \* time.sleep arguments of the current call
    inflight,               \* chunks whose generate_dialogue call is pending
    requests,               \* every generate_dialogue call made by the loop
    results,                \* the value each finished call returned
    result,                 \* return value of process_single_video
    error,                  \* exception process_single_video caught
    file,                   \* writer.write: the extension of output_path and
                            \* what the call left on disk
    main_pc,                \* position of the caller: main, batch_generate,
                            \* or "none" for a direct call
    api_key,                \* main: is ANTHROPIC_API_KEY set
    video_files,            \* main: video_files
    position,               \* main: place in video_files of video_path
    successful_count,       \* main: successful_count
    failed_videos,          \* main: failed_videos, as places in video_files
    disk,                   \* per video, its output path: "none", "old"
                            \* (there before the run) or "new" (written by it)
    main_error,             \* exception main's except clause caught
    summary,                \* the counts main logged at the end, if it did
    calls,                  \* what each process_single_video call of main did
    pauses                  \* time.sleep(0.5) calls of batch_generate

vars == <<chunk_duration, frames_per_chunk, max_retries, retry_delay,
          hasDuration, video, pc, cap, fps, duration, current_time, chunks, walked,
          sampled,
          video_chunks, idx, full_transcript, all_previous_dialogue, dialogue,
          attempt, api_calls, outcome, sleep_time, delays, inflight, requests,
          results, result, error, file, main_pc, api_key, video_files,
          position, successful_count, failed_videos, disk, main_error,
          summary, calls, pauses>>

setupVars == <<chunk_duration, frames_per_chunk, max_retries, retry_delay,
               hasDuration>>
mainVars == <<main_pc, api_key, video_files, position, successful_count,
              failed_videos, disk, main_error, summary, calls>>
\* what no step of process_single_video or generate_dialogue assigns
configVars == <<setupVars, video, mainVars, pauses>>
chunkerVars == <<cap, fps, duration, current_time, chunks, walked, sampled>>
loopVars == <<video_chunks, idx, full_transcript, all_previous_dialogue>>
callVars == <<dialogue, attempt, api_calls, outcome, sleep_time, delays>>
logVars == <<inflight, requests, results>>

\* the VideoChunk dataclass declares no duration field
VideoChunkHasDuration == FALSE

\* ------------------------------------------------------- video_chunker
\* VideoChunker._format_timestamp: the two numbers of "[MM:SS]"
FormatTimestamp(ticks) ==
    <<ticks \div (60 * TicksPerSecond),
      (ticks % (60 * TicksPerSecond)) \div TicksPerSecond>>

\* mutant of SampleTimestampNum: the samples are counted from 0, not from 1
SampleTimestampNum_FromZero(start_time, end_time, i, k) ==
    start_time * (k + 1) + (i - 1) * (end_time - start_time)

\* timestamp = start_time + i * frame_interval, as a fraction of a second
\* with denominator (frames_per_chunk + 1) * TicksPerSecond
SampleTimestampNum(start_time, end_time, i, k) ==
    start_time * (k + 1) + i * (end_time - start_time)

\* the timestamps of for i in range(1, self.frames_per_chunk + 1)
SampleTimestamps(start_time, end_time, k) ==
    [i \in 1..k |-> SampleTimestampNum(start_time, end_time, i, k)]

\* VideoChunker._get_frame_at_time: frame_number = int(timestamp * fps)
FrameNumber(start_time, end_time, i, k, f) ==
    (SampleTimestampNum(start_time, end_time, i, k) * f)
        \div ((k + 1) * TicksPerSecond)

\* the frames list of _extract_chunk_frames; got[i] is cap.read()'s ret
RECURSIVE SampledFrames(_, _, _, _, _, _)
SampledFrames(start_time, end_time, i, k, f, got) ==
    IF i > k THEN <<>>
    ELSE (IF got[i] THEN <<FrameNumber(start_time, end_time, i, k, f)>>
                    ELSE <<>>)
         \o SampledFrames(start_time, end_time, i + 1, k, f, got)

\* VideoChunker._extract_chunk_frames
ExtractChunkFrames(start_time, end_time, f, k, got) ==
    [start_time |-> start_time,
     end_time |-> end_time,
     frames |-> SampledFrames(start_time, end_time, 1, k, f, got),
     formatted_timestamp |-> FormatTimestamp(start_time)]

Min(a, b) == IF a < b THEN a ELSE b

\* mutant of Caught: the exception is swallowed and the video reported done
Caught_ReturnsTrue(e) ==
    /\ pc' = "done"
    /\ result' = "True"
    /\ error' = e

\* process_single_video's except clause: log and return False
Caught(e) ==
    /\ pc' = "done"
    /\ result' = "False"
    /\ error' = e

\* mutant of ChunkEnd: the end is not clamped to the video's duration
ChunkEnd_NoClamp(t, cd, d) == t + cd

\* end_time = min(current_time + self.chunk_duration, duration)
ChunkEnd(t, cd, d) == Min(t + cd, d)

\* mutant of KeepChunk: a chunk is appended whether or not it has frames
KeepChunk_Always(chunk) == TRUE

\* if chunk.frames: chunks.append(chunk)
KeepChunk(chunk) == chunk.frames # <<>>

\* chunk_video up to the start of the walk
ChunkVideoOpen ==
    /\ pc = "start"
    /\ IF ~video.exists
       THEN /\ Caught("FileNotFoundError")
            /\ UNCHANGED chunkerVars
       ELSE IF ~video.opened
       THEN /\ Caught("ValueError")
            /\ cap' = "unopened"
            /\ UNCHANGED <<fps, duration, current_time, chunks, walked,
                           sampled>>
       ELSE IF video.fps = 0
       THEN /\ Caught("ZeroDivisionError")
            /\ cap' = "open"
            /\ fps' = video.fps
            /\ UNCHANGED <<duration, current_time, chunks, walked, sampled>>
       ELSE /\ cap' = "open"
            /\ fps' = video.fps
            /\ duration' =
                  video.total_frames * (TicksPerSecond \div video.fps)
            /\ current_time' = 0
            /\ chunks' = <<>>
            /\ walked' = <<>>
            /\ sampled' = <<>>
            /\ pc' = "walk"
            /\ UNCHANGED <<result, error>>
    /\ UNCHANGED <<configVars, loopVars, callVars, logVars, file>>

\* the iterations the walk is followed for: more than any walk that advances
\* by a tick or more per iteration makes over the videos of Videos(MaxFrames),
\* whose durations are at most MaxFrames * TicksPerSecond ticks
WalkLimit == MaxFrames * TicksPerSecond + 1

\* one iteration of while current_time < duration
ChunkWalk ==
    /\ pc = "walk"
    /\ current_time < duration
    /\ Len(walked) < WalkLimit
    /\ \E got \in [1..frames_per_chunk -> BOOLEAN] :
         LET end_time == ChunkEnd(current_time, chunk_duration, duration)
             chunk == ExtractChunkFrames(current_time, end_time, fps,
                                         frames_per_chunk, got)
         IN  /\ chunks' = IF KeepChunk(chunk) THEN Append(chunks, chunk)
                                              ELSE chunks
             /\ walked' = Append(walked, <<current_time, end_time>>)
             /\ sampled' = Append(sampled,
                    SampleTimestamps(current_time, end_time,
                                     frames_per_chunk))
             /\ current_time' = end_time
    /\ UNCHANGED <<configVars, pc, cap, fps, duration, loopVars, callVars,
                   logVars, result, error, file>>

\* cap.release(); return chunks; then lines 91-96 of process_single_video
ChunkVideoReturn ==
    /\ pc = "walk"
    /\ ~(current_time < duration)
    /\ cap' = "released"
    /\ video_chunks' = chunks
    /\ IF chunks = <<>>
       THEN /\ pc' = "done"
            /\ result' = "False"
            /\ UNCHANGED <<idx, full_transcript, all_previous_dialogue>>
       ELSE /\ pc' = "loop"
            /\ idx' = 1
            /\ full_transcript' = <<>>
            /\ all_previous_dialogue' = <<>>
            /\ UNCHANGED result
    /\ UNCHANGED <<configVars, fps, duration, current_time, chunks, walked,
                   sampled, callVars, logVars, error, file>>


\* ------------------------------------------------------- claude_runner
\* raw texts response.content[0].text can carry
Responses ==
    { <<"SP", "b", "NL">>,
      <<"BQ", "BQ", "BQ", "NL", "a", "CR", "NL", "b", "NL", "BQ", "BQ", "BQ">>,
      <<"SP">>,
      <<>> }

\* what one client.messages.create call can do: return content with a text,
\* return empty content, raise RateLimitError, raise another APIError that is
\* transient (5xx, connection) or permanent (400 bad request), or raise
\* something else
ErrorKinds == {"rate_limit", "api_transient", "api_permanent", "exception"}

NoOutcome == [kind |-> "none", text |-> <<>>]

Outcomes ==
    [kind : {"text"}, text : Responses]
        \cup [kind : {"empty"} \cup ErrorKinds, text : {<<>>}]

\* Python truthiness of an Optional[str]
Truthy(s) == s # None /\ s # <<>>

RECURSIVE Pow2(_)
Pow2(n) == IF n = 0 THEN 1 ELSE 2 * Pow2(n - 1)

\* mutant of BackoffDelay: the exponent is off by one
BackoffDelay_OffByOne(kind, rd, a) ==
    IF kind = "rate_limit" THEN rd * Pow2(a + 1) ELSE rd

\* the time.sleep argument of the except clauses
BackoffDelay(kind, rd, a) ==
    IF kind = "rate_limit" THEN rd * Pow2(a) ELSE rd

\* mutant of Raised: an empty response is handled as an exception is
Raised_EmptyToo(kind) == kind \in ErrorKinds \cup {"empty"}

\* the attempts that end in one of the except clauses of lines 119-138,
\* where the time.sleep calls are; an empty response ends in the else of
\* line 116, which only logs
Raised(kind) == kind \in ErrorKinds

\* mutant of WillSleep: the last two attempts are not followed by a delay
WillSleep_OffByOne(a, mr) == a < mr - 2

\* if attempt < self.max_retries - 1
WillSleep(a, mr) == a < mr - 1

\* mutant of MoreAttempts: range(self.max_retries + 1)
MoreAttempts_OneTooMany(a, mr) == a + 1 < mr + 1

\* for attempt in range(self.max_retries): is there an attempt after a
MoreAttempts(a, mr) == a + 1 < mr

\* generate_dialogue, lines 79-86: clean a truthy response, else None
DialogueOf(response) ==
    IF Truthy(response) THEN CleanResponse(response) ELSE None

\* context_to_pass = all_previous_dialogue if all_previous_dialogue else None
ContextToPass(apd) == IF apd # <<>> THEN apd ELSE None

\* PromptBuilder.build: context_lines = context.strip().split('\n')
ContextLines(context) == SplitNL(Strip(context))

\* ------------------------------------------------------- prompt_builder
\* a duration argument is <<>> for None and <<d>> for d ticks

\* mutant of DurationBand: the middle band ends at 12 seconds as well
DurationBand_NoMiddle(d) ==
    IF d <= 12 * TicksPerSecond THEN 1
    ELSE IF d <= 12 * TicksPerSecond THEN 2
    ELSE 3

\* if duration <= 12: ... elif duration <= 20: ... else: ..., as the number
\* of exchanges the guidance text allows
DurationBand(d) ==
    IF d <= 12 * TicksPerSecond THEN 1
    ELSE IF d <= 20 * TicksPerSecond THEN 2
    ELSE 3

\* max_words = int(duration * 2.5)
MaxWords(d) == (5 * d) \div (2 * TicksPerSecond)

NoGuidance == [exchanges |-> 0, max_words |-> 0, target |-> 0]

\* duration_guidance: empty unless duration is truthy
DurationGuidance(dur) ==
    IF dur = <<>> \/ dur[1] = 0 THEN NoGuidance
    ELSE [exchanges |-> DurationBand(dur[1]),
          max_words |-> MaxWords(dur[1]),
          target |-> dur[1]]

\* mutant of RecentLines: the whole context is quoted
RecentLines_All(context_lines) == context_lines

\* context_lines[-8:] if len(context_lines) > 8 else context_lines
RecentLines(context_lines) ==
    IF Len(context_lines) > 8
    THEN SubSeq(context_lines, Len(context_lines) - 7, Len(context_lines))
    ELSE context_lines

\* recent_context, the lines of the context that the text prompt quotes;
\* without a context the prompt quotes nothing
RecentContext(context) ==
    IF context = None \/ context = <<>> THEN <<>>
    ELSE RecentLines(ContextLines(context))

\* for base64_image in frames: user_content.insert(0, image block)
RECURSIVE InsertFrames(_, _)
InsertFrames(user_content, frames) ==
    IF frames = <<>> THEN user_content
    ELSE InsertFrames(<<[type |-> "image", data |-> <<Head(frames)>>]>>
                         \o user_content,
                      Tail(frames))

\* PromptBuilder.build for a non-empty frame list: the content blocks
Build(frames, context, dur) ==
    InsertFrames(<<[type |-> "text",
                    data |-> <<DurationGuidance(dur),
                               RecentContext(context)>>]>>,
                 frames)

\* mutant of NoFrames: an empty frame list goes on to the API call
NoFrames_Ignored(frames) == FALSE

\* generate_dialogue, lines 69-71: if not frames, log and return None
NoFrames(frames) == frames = <<>>

\* generate_dialogue returns d to its caller: the loop of
\* process_single_video, or the loop of batch_generate
ReturnDialogue(d) ==
    /\ dialogue' = d
    /\ results' = Append(results, d)
    /\ inflight' = inflight \ {idx}
    /\ pc' = IF main_pc = "batch_generate" THEN "pause" ELSE "fold"

\* the duration attribute of a chunk that has one: end_time - start_time
ChunkDuration(chunk) == chunk.end_time - chunk.start_time

\* a generate_dialogue call for the i-th chunk: its context and duration
\* arguments and, if there are frames, the content build makes of them
Request(i, frames, context, dur) ==
    [chunk |-> i,
     context |-> context,
     duration |-> dur,
     prompt |-> IF frames = <<>> THEN <<>>
                ELSE Build(frames, context, dur)]

\* lines 102-111 of process_single_video and the entry of generate_dialogue
StartChunk ==
    /\ pc = "loop"
    /\ idx <= Len(video_chunks)
    /\ IF ~hasDuration
       THEN /\ Caught("AttributeError")
            /\ UNCHANGED <<callVars, logVars>>
       ELSE /\ requests' = Append(requests,
                   Request(idx, video_chunks[idx].frames,
                           ContextToPass(all_previous_dialogue),
                           <<ChunkDuration(video_chunks[idx])>>))
            /\ attempt' = 0
            /\ api_calls' = 0
            /\ delays' = <<>>
            /\ sleep_time' = 0
            /\ outcome' = NoOutcome
            /\ UNCHANGED <<result, error>>
            /\ IF NoFrames(video_chunks[idx].frames) \/ max_retries = 0
               THEN ReturnDialogue(None)
               ELSE /\ inflight' = inflight \cup {idx}
                    /\ pc' = "attempt"
                    /\ UNCHANGED <<dialogue, results>>
    /\ UNCHANGED <<configVars, chunkerVars, loopVars, file>>

\* one iteration of for attempt in range(self.max_retries)
ApiAttempt ==
    /\ pc = "attempt"
    /\ \E o \in Outcomes :
         /\ outcome' = o
         /\ api_calls' = api_calls + 1
         /\ IF o.kind = "text"
            THEN /\ ReturnDialogue(DialogueOf(o.text))
                 /\ UNCHANGED <<attempt, sleep_time, requests>>
            ELSE IF Raised(o.kind) /\ WillSleep(attempt, max_retries)
            THEN /\ sleep_time' = BackoffDelay(o.kind, retry_delay, attempt)
                 /\ pc' = "sleep"
                 /\ UNCHANGED <<attempt, dialogue, logVars>>
            ELSE IF MoreAttempts(attempt, max_retries)
            THEN /\ attempt' = attempt + 1
                 /\ UNCHANGED <<pc, sleep_time, dialogue, logVars>>
            ELSE /\ ReturnDialogue(None)
                 /\ UNCHANGED <<attempt, sleep_time, requests>>
    /\ UNCHANGED <<configVars, chunkerVars, loopVars, delays, result, error,
                   file>>

\* mutant of Sleep: the backoff does not block the loop, which goes on to
\* the next chunk while the retry is pending
Sleep_NonBlocking ==
    /\ pc = "sleep"
    /\ delays' = Append(delays, sleep_time)
    /\ sleep_time' = 0
    /\ idx' = idx + 1
    /\ pc' = "loop"
    /\ UNCHANGED <<configVars, chunkerVars, video_chunks, full_transcript,
                   all_previous_dialogue, dialogue, attempt, api_calls,
                   outcome, logVars, result, error, file>>

\* time.sleep returns and the for loop takes the next attempt
Sleep ==
    /\ pc = "sleep"
    /\ delays' = Append(delays, sleep_time)
    /\ sleep_time' = 0
    /\ IF MoreAttempts(attempt, max_retries)
       THEN /\ attempt' = attempt + 1
            /\ pc' = "attempt"
            /\ UNCHANGED <<dialogue, logVars>>
       ELSE /\ ReturnDialogue(None)
            /\ UNCHANGED <<attempt, requests>>
    /\ UNCHANGED <<configVars, chunkerVars, loopVars, api_calls, outcome,
                   result, error, file>>

\* mutant of NextTranscript: the entry is inserted at the front
NextTranscript_Prepend(ft, timestamp, d) ==
    IF Truthy(d)
    THEN <<[timestamp |-> timestamp, dialogue |-> d]>> \o ft
    ELSE ft

\* if dialogue: full_transcript.append({"timestamp": ..., "dialogue": ...})
NextTranscript(ft, timestamp, d) ==
    IF Truthy(d)
    THEN Append(ft, [timestamp |-> timestamp, dialogue |-> d])
    ELSE ft

\* mutant of NextContext: the newline is added outside the if
NextContext_Always(apd, d) ==
    (IF Truthy(d) THEN apd \o d ELSE apd) \o <<"NL">>

\* mutant of NextContext: = instead of +=
NextContext_Overwrite(apd, d) ==
    IF Truthy(d) THEN d \o <<"NL">> ELSE apd

\* if dialogue: all_previous_dialogue += dialogue + "\n"
NextContext(apd, d) ==
    IF Truthy(d) THEN apd \o d \o <<"NL">> ELSE apd

\* the locals of the finished generate_dialogue call are gone
CallReturned ==
    /\ dialogue' = None
    /\ attempt' = 0
    /\ api_calls' = 0
    /\ outcome' = NoOutcome
    /\ sleep_time' = 0
    /\ delays' = <<>>

\* lines 113-120 of process_single_video
FoldResult ==
    /\ pc = "fold"
    /\ full_transcript' =
           NextTranscript(full_transcript, video_chunks[idx].start_time,
                          dialogue)
    /\ all_previous_dialogue' = NextContext(all_previous_dialogue, dialogue)
    /\ idx' = idx + 1
    /\ pc' = "loop"
    /\ CallReturned
    /\ UNCHANGED <<configVars, chunkerVars, video_chunks, logVars, result,
                   error, file>>

\* ---------------------------------------------------------------- writer
Extensions == {".txt", ".TXT", ".json", ".JSON", ".srt"}

\* mutant of Lower: the extension is compared as it is written
Lower_AsWritten(ext) == ext

\* str.lower() on the extensions above
Lower(ext) ==
    IF ext = ".TXT" THEN ".txt" ELSE IF ext = ".JSON" THEN ".json" ELSE ext

\* writer.format_timestamp: the three numbers of "[HH:MM:SS]"
FormatHMS(ticks) ==
    <<ticks \div (3600 * TicksPerSecond),
      (ticks \div (60 * TicksPerSecond)) % 60,
      (ticks % (60 * TicksPerSecond)) \div TicksPerSecond>>

\* TranscriptWriter._write_txt: a header line and the dialogue per entry
WriteTxt(data) ==
    [i \in 1..Len(data) |->
        <<FormatHMS(data[i].timestamp), data[i].dialogue>>]

\* ------------------------------------------------------------ json text
\* The text json.dump writes is a sequence of tokens: the brackets, comma
\* and colon, one token per key ("K_timestamp", "K_dialogue"), and the
\* characters of numbers and strings. The indentation of indent=4, which
\* json.load skips, is left out.
DigitChars == <<"0", "1", "2", "3", "4", "5", "6", "7", "8", "9">>

RECURSIVE Digits(_)
Digits(n) ==
    IF n < 10 THEN <<DigitChars[n + 1]>>
    ELSE Digits(n \div 10) \o <<DigitChars[(n % 10) + 1]>>

\* float.__repr__ of a time of whole ticks: "1.5", "0.0"
JsonFloat(ticks) ==
    Digits(ticks \div TicksPerSecond)
       \o <<".">> \o Digits(((ticks % TicksPerSecond) * 10) \div TicksPerSecond)

\* mutant of EscapeChar: every character is written as it is
EscapeChar_Raw(c) == <<c>>

\* the encoder's escapes, with ensure_ascii=False
EscapeChar(c) ==
    IF c = "NL" THEN <<"BS", "n">>
    ELSE IF c = "CR" THEN <<"BS", "r">>
    ELSE IF c = "DQ" THEN <<"BS", "DQ">>
    ELSE IF c = "BS" THEN <<"BS", "BS">>
    ELSE <<c>>

RECURSIVE JsonEscape(_)
JsonEscape(str) ==
    IF str = <<>> THEN <<>> ELSE EscapeChar(Head(str)) \o JsonEscape(Tail(str))

JsonString(str) == <<"DQ">> \o JsonEscape(str) \o <<"DQ">>

\* one {"timestamp": ..., "dialogue": ...} object
JsonEntry(e) ==
    <<"{", "K_timestamp", ":">> \o JsonFloat(e.timestamp)
       \o <<",", "K_dialogue", ":">> \o JsonString(e.dialogue) \o <<"}">>

RECURSIVE JsonEntries(_)
JsonEntries(data) ==
    IF data = <<>> THEN <<>>
    ELSE IF Len(data) = 1 THEN JsonEntry(Head(data))
    ELSE JsonEntry(Head(data)) \o <<",">> \o JsonEntries(Tail(data))

\* TranscriptWriter._write_json: json.dump(transcript_data, f, ...)
WriteJson(data) == <<"[">> \o JsonEntries(data) \o <<"]">>

\* the decoder: every parser returns whether it succeeded, the value and the
\* place of the next token
ParseFailed == [ok |-> FALSE, value |-> <<>>, next |-> 0]

At(text, i) == IF i \in 1..Len(text) THEN text[i] ELSE "EOF"

DigitValue(c) == CHOOSE d \in 0..9 : DigitChars[d + 1] = c

IsDigit(c) == \E d \in 0..9 : DigitChars[d + 1] = c

\* the digits from place i: their value, their number, the next place
RECURSIVE ParseDigits(_, _, _, _)
ParseDigits(text, i, acc, n) ==
    IF IsDigit(At(text, i))
    THEN ParseDigits(text, i + 1, acc * 10 + DigitValue(text[i]), n + 1)
    ELSE [value |-> acc, count |-> n, next |-> i]

RECURSIVE Pow10(_)
Pow10(n) == IF n = 0 THEN 1 ELSE 10 * Pow10(n - 1)

\* a number with a fraction, as a time in ticks
ParseFloat(text, i) ==
    LET whole == ParseDigits(text, i, 0, 0)
        frac  == ParseDigits(text, whole.next + 1, 0, 0)
    IN  IF whole.count = 0 \/ At(text, whole.next) # "." \/ frac.count = 0
        THEN ParseFailed
        ELSE [ok |-> TRUE,
              value |-> whole.value * TicksPerSecond
                           + (frac.value * TicksPerSecond)
                                \div Pow10(frac.count),
              next |-> frac.next]

\* the characters of a string from place i, after the opening quote, up to
\* the closing quote; a control character inside a string is an error
RECURSIVE ParseChars(_, _)
ParseChars(text, i) ==
    LET c == At(text, i)
    IN  IF c = "DQ" THEN [ok |-> TRUE, value |-> <<>>, next |-> i + 1]
        ELSE IF c \in {"EOF", "NL", "CR"} THEN ParseFailed
        ELSE IF c = "BS"
        THEN LET e == At(text, i + 1)
                 rest == ParseChars(text, i + 2)
             IN  IF e \notin {"n", "r", "DQ", "BS"} \/ ~rest.ok
                 THEN ParseFailed
                 ELSE [ok |-> TRUE,
                       value |-> <<(IF e = "n" THEN "NL"
                                    ELSE IF e = "r" THEN "CR" ELSE e)>>
                                    \o rest.value,
                       next |-> rest.next]
        ELSE LET rest == ParseChars(text, i + 1)
             IN  IF ~rest.ok THEN ParseFailed
                 ELSE [ok |-> TRUE, value |-> <<c>> \o rest.value,
                       next |-> rest.next]

\* one object from place i
ParseEntry(text, i) ==
    IF <<At(text, i), At(text, i + 1), At(text, i + 2)>>
          # <<"{", "K_timestamp", ":">>
    THEN ParseFailed
    ELSE LET t == ParseFloat(text, i + 3)
         IN  IF ~t.ok THEN ParseFailed
             ELSE IF <<At(text, t.next), At(text, t.next + 1),
                       At(text, t.next + 2), At(text, t.next + 3)>>
                        # <<",", "K_dialogue", ":", "DQ">>
             THEN ParseFailed
             ELSE LET d == ParseChars(text, t.next + 4)
                  IN  IF ~d.ok \/ At(text, d.next) # "}" THEN ParseFailed
                      ELSE [ok |-> TRUE,
                            value |-> [timestamp |-> t.value,
                                       dialogue |-> d.value],
                            next |-> d.next + 1]

\* the objects of a non-empty array from place i, up to the closing bracket
RECURSIVE ParseEntries(_, _)
ParseEntries(text, i) ==
    LET e == ParseEntry(text, i)
    IN  IF ~e.ok THEN ParseFailed
        ELSE IF At(text, e.next) = "]"
        THEN [ok |-> TRUE, value |-> <<e.value>>, next |-> e.next + 1]
        ELSE IF At(text, e.next) # "," THEN ParseFailed
        ELSE LET rest == ParseEntries(text, e.next + 1)
             IN  IF ~rest.ok THEN ParseFailed
                 ELSE [ok |-> TRUE, value |-> <<e.value>> \o rest.value,
                       next |-> rest.next]

\* json.load of the text: the list, or a failure
ReadJson(text) ==
    IF At(text, 1) # "[" THEN ParseFailed
    ELSE IF At(text, 2) = "]"
    THEN (IF Len(text) = 2 THEN [ok |-> TRUE, value |-> <<>>, next |-> 3]
          ELSE ParseFailed)
    ELSE LET es == ParseEntries(text, 2)
         IN  IF es.ok /\ es.next = Len(text) + 1 THEN es ELSE ParseFailed

\* writer.write was not called: no directory made, no extension looked at,
\* no file written
NoFile == [dir |-> FALSE, ext |-> "none", form |-> "none", content |-> <<>>]

\* what TranscriptWriter.write leaves on disk for a path with extension ext:
\* the directory of the path if it has one, and the file in the form of the
\* extension
WriterFile(ext, has_dir, data) ==
    [dir |-> has_dir,
     ext |-> ext,
     form |-> IF Lower(ext) = ".txt" THEN "txt"
              ELSE IF Lower(ext) = ".json" THEN "json" ELSE "none",
     content |-> IF Lower(ext) = ".txt" THEN WriteTxt(data)
                 ELSE IF Lower(ext) = ".json" THEN WriteJson(data) ELSE <<>>]

\* the else branch of write: raise ValueError
WriterRaises(ext) == Lower(ext) # ".txt" /\ Lower(ext) # ".json"

\* TranscriptWriter.write called with transcript_data = full_transcript
WriterWrite ==
    /\ pc = "write"
    /\ \E ext \in Extensions, has_dir \in BOOLEAN :
         /\ file' = WriterFile(ext, has_dir, full_transcript)
         /\ error' = IF WriterRaises(ext) THEN "ValueError" ELSE "none"
    /\ pc' = "done"
    /\ UNCHANGED <<configVars, chunkerVars, loopVars, callVars, logVars,
                   result>>

\* the extension of output_path: main passes what generate_output_filename
\* returns, which ends in .txt
OutputExtensions == IF main_pc = "call" THEN {".txt"} ELSE Extensions

\* lines 122-129 of process_single_video, with TranscriptWriter.write
WriteTranscript ==
    /\ pc = "loop"
    /\ idx > Len(video_chunks)
    /\ IF full_transcript = <<>>
       THEN /\ pc' = "done"
            /\ result' = "False"
            /\ UNCHANGED <<error, file>>
       ELSE \E ext \in OutputExtensions, has_dir \in BOOLEAN :
              /\ file' = WriterFile(ext, has_dir, full_transcript)
              /\ IF WriterRaises(ext)
                 THEN Caught("ValueError")
                 ELSE /\ pc' = "done"
                      /\ result' = "True"
                      /\ UNCHANGED error
    /\ UNCHANGED <<configVars, chunkerVars, loopVars, callVars, logVars>>

\* ------------------------------------------- claude_runner.batch_generate
\* lines 184-190 of batch_generate
BatchStart ==
    /\ pc = "batch_start"
    /\ \E same_length \in BOOLEAN :
         IF same_length
         THEN /\ pc' = "batch"
              /\ idx' = 1
              /\ UNCHANGED error
         ELSE /\ pc' = "done"
              /\ error' = "ValueError"
              /\ UNCHANGED idx
    /\ UNCHANGED <<configVars, chunkerVars, video_chunks, full_transcript,
                   all_previous_dialogue, callVars, logVars, result, file>>

\* dialogue = self.generate_dialogue(frames, timestamp), up to the retry loop
BatchCall ==
    /\ pc = "batch"
    /\ idx <= Len(video_chunks)
    /\ requests' = Append(requests,
                          Request(idx, video_chunks[idx].frames, None, <<>>))
    /\ attempt' = 0
    /\ api_calls' = 0
    /\ delays' = <<>>
    /\ sleep_time' = 0
    /\ outcome' = NoOutcome
    /\ IF NoFrames(video_chunks[idx].frames) \/ max_retries = 0
       THEN ReturnDialogue(None)
       ELSE /\ inflight' = inflight \cup {idx}
            /\ pc' = "attempt"
            /\ UNCHANGED <<dialogue, results>>
    /\ UNCHANGED <<configVars, chunkerVars, loopVars, result, error, file>>

\* if i < total_segments - 1, for the i-th segment counted from 1
PauseAfter(i, total) == i - 1 < total - 1

\* lines 198-207 of batch_generate: the result is recorded and the loop
\* sleeps before the next request
BatchPause ==
    /\ pc = "pause"
    /\ pauses' = IF PauseAfter(idx, Len(video_chunks))
                 THEN pauses + 1 ELSE pauses
    /\ idx' = idx + 1
    /\ pc' = "batch"
    /\ CallReturned
    /\ UNCHANGED <<setupVars, video, mainVars, chunkerVars, video_chunks,
                   full_transcript, all_previous_dialogue, logVars, result,
                   error, file>>

\* return results
BatchReturn ==
    /\ pc = "batch"
    /\ idx > Len(video_chunks)
    /\ pc' = "done"
    /\ UNCHANGED <<configVars, chunkerVars, loopVars, callVars, logVars,
                   result, error, file>>

\* ------------------------------------------------ generate_transcript.main
\* VideoChunker.__init__(self, chunk_duration=5.0, frames_per_chunk=3) has
\* no min_duration and no max_duration parameter
VideoChunkerAcceptsBounds == FALSE

\* does the chunker class main constructs take min_duration and
\* max_duration: the class whose chunks carry a duration does, VideoChunker
\* does not
AcceptsBounds == IF hasDuration THEN TRUE ELSE VideoChunkerAcceptsBounds

\* video_files = video_files[:args.max_videos], when max_videos is given
\* and not 0
Truncated(files, max_videos) ==
    IF max_videos = 0 \/ max_videos >= Len(files) THEN files
    ELSE SubSeq(files, 1, max_videos)

\* the state a call of process_single_video starts in, with pc at p
NewCall(p) ==
    /\ pc' = p
    /\ cap' = "none"
    /\ fps' = 0
    /\ duration' = 0
    /\ current_time' = 0
    /\ chunks' = <<>>
    /\ walked' = <<>>
    /\ sampled' = <<>>
    /\ video_chunks' = <<>>
    /\ idx' = 0
    /\ full_transcript' = <<>>
    /\ all_previous_dialogue' = <<>>
    /\ CallReturned
    /\ inflight' = {}
    /\ requests' = <<>>
    /\ results' = <<>>
    /\ result' = "none"
    /\ error' = "none"
    /\ file' = NoFile

perCallVars == <<pc, chunkerVars, loopVars, callVars, logVars, result, error,
                 file>>

\* main up to the for loop: the API key, the list of videos, the modules
MainStart ==
    /\ main_pc = "start"
    /\ IF ~api_key \/ video_files = <<>>
       THEN /\ main_pc' = "done"
            /\ UNCHANGED <<video_files, position, main_error>>
       ELSE \E max_videos \in 0..Len(video_files) :
              /\ video_files' = Truncated(video_files, max_videos)
              /\ IF AcceptsBounds
                 THEN /\ main_pc' = "next"
                      /\ position' = 1
                      /\ UNCHANGED main_error
                 ELSE /\ main_pc' = "done"
                      /\ main_error' = "TypeError"
                      /\ UNCHANGED position
    /\ UNCHANGED <<setupVars, video, perCallVars, api_key, successful_count,
                   failed_videos, disk, summary, calls, pauses>>

\* mutant of OutputExists: no output is ever found on disk
OutputExists_Never(d, i) == FALSE

\* os.path.exists(output_path)
OutputExists(d, i) == d[i] # "none"

\* lines 232-245 of main: the next video is skipped or handed to
\* process_single_video
MainNextVideo ==
    /\ main_pc = "next"
    /\ position <= Len(video_files)
    /\ IF OutputExists(disk, position)
       THEN /\ position' = position + 1
            /\ UNCHANGED <<main_pc, video, perCallVars>>
       ELSE /\ main_pc' = "call"
            /\ video' = video_files[position]
            /\ NewCall("start")
            /\ UNCHANGED position
    /\ UNCHANGED <<setupVars, api_key, video_files, successful_count,
                   failed_videos, disk, main_error, summary, calls, pauses>>

\* mutant of FailedVideos: a failed video is not recorded
FailedVideos_Forgotten(failed, name, success) == failed

\* if success: ... else: failed_videos.append(video_name)
FailedVideos(failed, name, success) ==
    IF success THEN failed ELSE Append(failed, name)

\* what main can tell of a finished call: how many chunks the video was cut
\* into, how many requests were made, how many gave a dialogue, whether the
\* transcript was written
CallRecord ==
    [video |-> position,
     result |-> result,
     error |-> error,
     chunks |-> Len(video_chunks),
     requests |-> Len(requests),
     entries |-> Len(full_transcript),
     written |-> file.form # "none"]

\* lines 245-251 of main: process_single_video has returned
MainReturn ==
    /\ main_pc = "call"
    /\ pc = "done"
    /\ successful_count' =
          IF result = "True" THEN successful_count + 1 ELSE successful_count
    /\ failed_videos' = FailedVideos(failed_videos, position, result = "True")
    /\ disk' = IF file.form # "none"
               THEN [disk EXCEPT ![position] = "new"] ELSE disk
    /\ calls' = Append(calls, CallRecord)
    /\ position' = position + 1
    /\ main_pc' = "next"
    /\ NewCall("idle")
    /\ UNCHANGED <<setupVars, video, api_key, video_files, main_error,
                   summary, pauses>>

\* lines 253-267 of main: the summary
MainSummary ==
    /\ main_pc = "next"
    /\ position > Len(video_files)
    /\ summary' = <<[total |-> Len(video_files),
                     successful |-> successful_count,
                     failed |-> failed_videos]>>
    /\ main_pc' = "done"
    /\ UNCHANGED <<setupVars, video, perCallVars, api_key, video_files,
                   position, successful_count, failed_videos, disk,
                   main_error, calls, pauses>>

\* ------------------------------------------------------ specifications
\* the files video_path can name: missing, unopenable, or a stream of
\* total_frames frames at fps frames per second (0 is what cv2 reports for a
\* stream it cannot read); fps divides TicksPerSecond so that total_frames /
\* fps is a whole number of ticks
Videos(n) ==
    { v \in [exists : BOOLEAN, opened : BOOLEAN,
             fps : 0..TicksPerSecond, total_frames : 0..n] :
        /\ v.fps # 0 => TicksPerSecond % v.fps = 0
        /\ ~v.exists => (~v.opened /\ v.fps = 0 /\ v.total_frames = 0)
        /\ ~v.opened => (v.fps = 0 /\ v.total_frames = 0) }

\* the chunk objects are the VideoChunk of video_chunker.py, or objects that
\* also carry the duration attribute process_single_video reads
ChunkKinds == {VideoChunkHasDuration, TRUE}

\* process_single_video or generate_dialogue is called directly, not by main
NoMain ==
    /\ main_pc = "none"
    /\ api_key = TRUE
    /\ video_files = <<>>
    /\ position = 0
    /\ successful_count = 0
    /\ failed_videos = <<>>
    /\ disk = <<>>
    /\ main_error = "none"
    /\ summary = <<>>
    /\ calls = <<>>
    /\ pauses = 0

\* everything but the arguments of process_single_video
Start ==
    /\ NoMain
    /\ pc = "start"
    /\ cap = "none"
    /\ fps = 0
    /\ duration = 0
    /\ current_time = 0
    /\ chunks = <<>>
    /\ walked = <<>>
    /\ sampled = <<>>
    /\ video_chunks = <<>>
    /\ idx = 0
    /\ full_transcript = <<>>
    /\ all_previous_dialogue = <<>>
    /\ dialogue = None
    /\ attempt = 0
    /\ api_calls = 0
    /\ outcome = NoOutcome
    /\ sleep_time = 0
    /\ delays = <<>>
    /\ inflight = {}
    /\ requests = <<>>
    /\ results = <<>>
    /\ result = "none"
    /\ error = "none"
    /\ file = NoFile

\* process_single_video on one video
Init ==
    /\ chunk_duration \in {2, 3}
    /\ frames_per_chunk = 1
    /\ max_retries \in {1, 2}
    /\ retry_delay = 1
    /\ hasDuration \in ChunkKinds
    /\ video \in Videos(MaxFrames)
    /\ Start

Next ==
    \/ ChunkVideoOpen
    \/ ChunkWalk
    \/ ChunkVideoReturn
    \/ StartChunk
    \/ ApiAttempt
    \/ Sleep
    \/ FoldResult
    \/ WriteTranscript

Spec == Init /\ [][Next]_vars

\* a video of 22 seconds at one frame per second
ExampleVideo ==
    [exists |-> TRUE, opened |-> TRUE, fps |-> 1, total_frames |-> 22]

\* chunk_duration = 10.0 seconds, in ticks
ExampleChunkDuration == 10 * TicksPerSecond

\* chunk_video alone, over every chunker configuration, and on the 22 second
\* video with chunks of 10 seconds
InitChunker ==
    /\ \/ /\ chunk_duration \in 2..MaxChunkDuration
          /\ video \in Videos(MaxFrames)
       \/ /\ chunk_duration = ExampleChunkDuration
          /\ video = ExampleVideo
    /\ frames_per_chunk \in 1..MaxFramesPerChunk
    /\ max_retries = 1
    /\ retry_delay = 1
    /\ hasDuration = VideoChunkHasDuration
    /\ Start

NextChunker ==
    \/ ChunkVideoOpen
    \/ ChunkWalk
    \/ ChunkVideoReturn

SpecChunker == InitChunker /\ [][NextChunker]_vars

\* chunk_video alone with any chunk_duration the constructor takes, which
\* checks nothing: 0 is among them
InitWalk ==
    /\ chunk_duration \in 0..MaxChunkDuration
    /\ video \in Videos(MaxFrames)
    /\ frames_per_chunk = 1
    /\ max_retries = 1
    /\ retry_delay = 1
    /\ hasDuration = VideoChunkHasDuration
    /\ Start

\* the interpreter keeps running chunk_video: a step that can be taken is
\* taken
SpecWalk == InitWalk /\ [][NextChunker]_vars /\ WF_vars(NextChunker)

\* what chunk_video returns for a one-second video of one readable frame
OneChunk ==
    <<ExtractChunkFrames(0, TicksPerSecond, 1, 1, [i \in 1..1 |-> TRUE])>>

\* generate_dialogue alone, over every runner configuration: the loop is at
\* the chunk of a video that chunk_video cut into one chunk
InitRunner ==
    /\ chunk_duration = TicksPerSecond
    /\ frames_per_chunk = 1
    /\ max_retries \in 1..MaxRetries
    /\ retry_delay \in 1..MaxRetryDelay
    /\ hasDuration = TRUE
    /\ video = [exists |-> TRUE, opened |-> TRUE, fps |-> 1,
                total_frames |-> 1]
    /\ NoMain
    /\ pc = "loop"
    /\ cap = "released"
    /\ fps = 1
    /\ duration = TicksPerSecond
    /\ current_time = TicksPerSecond
    /\ chunks = OneChunk
    /\ walked = << <<0, TicksPerSecond>> >>
    /\ sampled = <<SampleTimestamps(0, TicksPerSecond, 1)>>
    /\ video_chunks = OneChunk
    /\ idx = 1
    /\ full_transcript = <<>>
    /\ all_previous_dialogue = <<>>
    /\ dialogue = None
    /\ attempt = 0
    /\ api_calls = 0
    /\ outcome = NoOutcome
    /\ sleep_time = 0
    /\ delays = <<>>
    /\ inflight = {}
    /\ requests = <<>>
    /\ results = <<>>
    /\ result = "none"
    /\ error = "none"
    /\ file = NoFile

NextRunner ==
    \/ StartChunk
    \/ ApiAttempt
    \/ Sleep
    \/ FoldResult
    \/ WriteTranscript

SpecRunner == InitRunner /\ [][NextRunner]_vars

\* the one-line dialogue of the i-th chunk
LineOf(i) == <<(IF i % 2 = 1 THEN "a" ELSE "b")>>

\* what all_previous_dialogue is after n dialogues of one line each
RECURSIVE ContextOf(_)
ContextOf(n) ==
    IF n = 0 THEN <<>> ELSE ContextOf(n - 1) \o LineOf(n) \o <<"NL">>

\* the i-th chunk of a video cut into chunks of cd ticks, k frames each
FullChunk(i, cd, k) ==
    ExtractChunkFrames((i - 1) * cd, i * cd, TicksPerSecond, k,
                       [j \in 1..k |-> TRUE])

\* the loop at the last chunk of a video whose chunks are up to MaxSeconds
\* seconds long with one or two frames each; the 0 to MaxContextLines
\* chunks before it each gave a dialogue of one line
InitDialogue ==
    /\ chunk_duration \in 1..(MaxSeconds * TicksPerSecond)
    /\ frames_per_chunk \in {1, 2}
    /\ max_retries = 2
    /\ retry_delay = 1
    /\ hasDuration = TRUE
    /\ idx \in 1..(MaxContextLines + 1)
    /\ video = [exists |-> TRUE, opened |-> TRUE, fps |-> TicksPerSecond,
                total_frames |-> idx * chunk_duration]
    /\ NoMain
    /\ pc = "loop"
    /\ cap = "released"
    /\ fps = TicksPerSecond
    /\ duration = idx * chunk_duration
    /\ current_time = duration
    /\ chunks = [i \in 1..idx |->
                    FullChunk(i, chunk_duration, frames_per_chunk)]
    /\ walked = [i \in 1..idx |->
                    <<(i - 1) * chunk_duration, i * chunk_duration>>]
    /\ sampled = [i \in 1..idx |->
                     SampleTimestamps((i - 1) * chunk_duration,
                                      i * chunk_duration, frames_per_chunk)]
    /\ video_chunks = chunks
    /\ full_transcript = [i \in 1..(idx - 1) |->
                             [timestamp |-> (i - 1) * chunk_duration,
                              dialogue |-> LineOf(i)]]
    /\ all_previous_dialogue = ContextOf(idx - 1)
    /\ dialogue = None
    /\ attempt = 0
    /\ api_calls = 0
    /\ outcome = NoOutcome
    /\ sleep_time = 0
    /\ delays = <<>>
    /\ inflight = {}
    /\ requests = [i \in 1..(idx - 1) |->
                      Request(i, chunks[i].frames,
                              ContextToPass(ContextOf(i - 1)),
                              <<chunk_duration>>)]
    /\ results = [i \in 1..(idx - 1) |-> LineOf(i)]
    /\ result = "none"
    /\ error = "none"
    /\ file = NoFile

SpecDialogue == InitDialogue /\ [][NextRunner]_vars

\* the videos of main's batch: one cv2 cannot open, one of a single frame
\* and one of two frames, at one frame per second
MainVideos ==
    { [exists |-> TRUE, opened |-> FALSE, fps |-> 0, total_frames |-> 0],
      [exists |-> TRUE, opened |-> TRUE, fps |-> 1, total_frames |-> 1],
      [exists |-> TRUE, opened |-> TRUE, fps |-> 1, total_frames |-> 2] }

\* main on a batch of at most MaxVideos videos, some of which have their
\* transcript on disk already
InitMain ==
    /\ chunk_duration = TicksPerSecond
    /\ frames_per_chunk = 1
    /\ max_retries = 2
    /\ retry_delay = 1
    /\ hasDuration \in ChunkKinds
    /\ video = [exists |-> FALSE, opened |-> FALSE, fps |-> 0,
                total_frames |-> 0]
    /\ main_pc = "start"
    /\ api_key \in BOOLEAN
    /\ video_files \in UNION { [1..n -> MainVideos] : n \in 0..MaxVideos }
    /\ disk \in [1..Len(video_files) -> {"none", "old"}]
    /\ position = 0
    /\ successful_count = 0
    /\ failed_videos = <<>>
    /\ main_error = "none"
    /\ summary = <<>>
    /\ calls = <<>>
    /\ pauses = 0
    /\ pc = "idle"
    /\ cap = "none"
    /\ fps = 0
    /\ duration = 0
    /\ current_time = 0
    /\ chunks = <<>>
    /\ walked = <<>>
    /\ sampled = <<>>
    /\ video_chunks = <<>>
    /\ idx = 0
    /\ full_transcript = <<>>
    /\ all_previous_dialogue = <<>>
    /\ dialogue = None
    /\ attempt = 0
    /\ api_calls = 0
    /\ outcome = NoOutcome
    /\ sleep_time = 0
    /\ delays = <<>>
    /\ inflight = {}
    /\ requests = <<>>
    /\ results = <<>>
    /\ result = "none"
    /\ error = "none"
    /\ file = NoFile

NextMain ==
    \/ MainStart
    \/ MainNextVideo
    \/ ChunkVideoOpen
    \/ ChunkWalk
    \/ ChunkVideoReturn
    \/ StartChunk
    \/ ApiAttempt
    \/ Sleep
    \/ FoldResult
    \/ WriteTranscript
    \/ MainReturn
    \/ MainSummary

SpecMain == InitMain /\ [][NextMain]_vars

\* the segments batch_generate is given: none, one, two, or one without
\* frames followed by one with a frame
BatchSegments ==
    { <<>>,
      OneChunk,
      OneChunk \o OneChunk,
      <<ExtractChunkFrames(0, TicksPerSecond, 1, 1, [i \in 1..1 |-> FALSE])>>
         \o OneChunk }

\* batch_generate alone
InitBatch ==
    /\ chunk_duration = TicksPerSecond
    /\ frames_per_chunk = 1
    /\ max_retries \in {1, 2}
    /\ retry_delay = 1
    /\ hasDuration = VideoChunkHasDuration
    /\ video = [exists |-> TRUE, opened |-> TRUE, fps |-> 1,
                total_frames |-> 2]
    /\ main_pc = "batch_generate"
    /\ api_key = TRUE
    /\ video_files = <<>>
    /\ position = 0
    /\ successful_count = 0
    /\ failed_videos = <<>>
    /\ disk = <<>>
    /\ main_error = "none"
    /\ summary = <<>>
    /\ calls = <<>>
    /\ pauses = 0
    /\ pc = "batch_start"
    /\ cap = "none"
    /\ fps = 0
    /\ duration = 0
    /\ current_time = 0
    /\ chunks = <<>>
    /\ walked = <<>>
    /\ sampled = <<>>
    /\ video_chunks \in BatchSegments
    /\ idx = 0
    /\ full_transcript = <<>>
    /\ all_previous_dialogue = <<>>
    /\ dialogue = None
    /\ attempt = 0
    /\ api_calls = 0
    /\ outcome = NoOutcome
    /\ sleep_time = 0
    /\ delays = <<>>
    /\ inflight = {}
    /\ requests = <<>>
    /\ results = <<>>
    /\ result = "none"
    /\ error = "none"
    /\ file = NoFile

NextBatch ==
    \/ BatchStart
    \/ BatchCall
    \/ ApiAttempt
    \/ Sleep
    \/ BatchPause
    \/ BatchReturn

SpecBatch == InitBatch /\ [][NextBatch]_vars

\* the dialogues of the transcripts write is called with: one line, two
\* lines, a quote, a backslash, and a backslash followed by the letter n
WriterDialogues ==
    { <<"a">>, <<"a", "NL", "b">>, <<"DQ">>, <<"BS">>, <<"BS", "n">> }

\* a transcript of at most 2 entries with timestamps up to MaxFrames ticks
WriterData ==
    UNION { [1..n -> [timestamp : 0..MaxFrames, dialogue : WriterDialogues]]
               : n \in 0..2 }

\* TranscriptWriter.write alone
InitWriter ==
    /\ chunk_duration = TicksPerSecond
    /\ frames_per_chunk = 1
    /\ max_retries = 1
    /\ retry_delay = 1
    /\ hasDuration = VideoChunkHasDuration
    /\ video = [exists |-> TRUE, opened |-> TRUE, fps |-> 1,
                total_frames |-> 1]
    /\ NoMain
    /\ pc = "write"
    /\ cap = "none"
    /\ fps = 0
    /\ duration = 0
    /\ current_time = 0
    /\ chunks = <<>>
    /\ walked = <<>>
    /\ sampled = <<>>
    /\ video_chunks = <<>>
    /\ idx = 0
    /\ full_transcript \in WriterData
    /\ all_previous_dialogue = <<>>
    /\ dialogue = None
    /\ attempt = 0
    /\ api_calls = 0
    /\ outcome = NoOutcome
    /\ sleep_time = 0
    /\ delays = <<>>
    /\ inflight = {}
    /\ requests = <<>>
    /\ results = <<>>
    /\ result = "none"
    /\ error = "none"
    /\ file = NoFile

SpecWriter == InitWriter /\ [][WriterWrite]_vars

\* the lines a response text is made of: a fence marker, a fence marker with
\* a language tag, a line, a line with blanks around it, an empty line
ResponseLineKinds ==
    { <<"BQ", "BQ", "BQ">>, <<"BQ", "BQ", "BQ", "p">>, <<"a">>,
      <<"SP", "b", "SP">>, <<>> }

\* the line endings a response text can use
LineEndings == { <<"NL">>, <<"CR", "NL">>, <<"CR">> }

RECURSIVE JoinWith(_, _)
JoinWith(lines, sep) ==
    IF lines = <<>> THEN <<>>
    ELSE IF Len(lines) = 1 THEN Head(lines)
    ELSE Head(lines) \o sep \o JoinWith(Tail(lines), sep)

\* response texts of 1..MaxLines lines, all with the same line ending
ResponseTexts ==
    { JoinWith(ls, sep) :
        ls \in UNION { [1..n -> ResponseLineKinds] : n \in 1..MaxLines },
        sep \in LineEndings }

\* generate_dialogue, line 82: self._clean_response(response) on the text
\* the API call returned
CleanResponseCall ==
    /\ pc = "clean"
    /\ dialogue' = CleanResponse(outcome.text)
    /\ pc' = "done"
    /\ UNCHANGED <<configVars, chunkerVars, loopVars, attempt, api_calls,
                   outcome, sleep_time, delays, logVars, result, error, file>>

\* _clean_response alone, on a response text the API returned
InitClean ==
    /\ chunk_duration = TicksPerSecond
    /\ frames_per_chunk = 1
    /\ max_retries = 1
    /\ retry_delay = 1
    /\ hasDuration = VideoChunkHasDuration
    /\ video = [exists |-> TRUE, opened |-> TRUE, fps |-> 1,
                total_frames |-> 1]
    /\ NoMain
    /\ pc = "clean"
    /\ cap = "none"
    /\ fps = 0
    /\ duration = 0
    /\ current_time = 0
    /\ chunks = <<>>
    /\ walked = <<>>
    /\ sampled = <<>>
    /\ video_chunks = <<>>
    /\ idx = 0
    /\ full_transcript = <<>>
    /\ all_previous_dialogue = <<>>
    /\ dialogue = None
    /\ attempt = 0
    /\ api_calls = 1
    /\ outcome \in [kind : {"text"}, text : ResponseTexts \ {<<>>}]
    /\ sleep_time = 0
    /\ delays = <<>>
    /\ inflight = {}
    /\ requests = <<>>
    /\ results = <<>>
    /\ result = "none"
    /\ error = "none"
    /\ file = NoFile

SpecClean == InitClean /\ [][CleanResponseCall]_vars

TypeOK ==
    /\ pc \in {"start", "walk", "loop", "attempt", "sleep", "fold", "done",
              "idle", "batch_start", "batch", "pause", "write", "clean"}
    /\ main_pc \in {"none", "batch_generate", "start", "next", "call", "done"}
    /\ result \in {"none", "True", "False"}
    /\ idx \in 0..(Len(video_chunks) + 1)


\* ------------------------------------------------------------- properties
\* the spans of a chunk list are contiguous from 0 and end at d
Covers(cs, d) ==
    /\ cs # <<>>
    /\ cs[1].start_time = 0
    /\ cs[Len(cs)].end_time = d
    /\ \A i \in 1..Len(cs) : cs[i].start_time < cs[i].end_time
    /\ \A i \in 1..(Len(cs) - 1) : cs[i].end_time = cs[i + 1].start_time

\* chunk_video has returned its list for a video of positive duration
ChunkVideoReturned == cap = "released" /\ duration > 0

\* C1, as stated: for every duration D > 0, frame rate F > 0 and
\* chunk_duration > 0 the spans of the chunks chunk_video returns are
\* contiguous, non-overlapping and have union [0, D), whatever frames can
\* or cannot be retrieved.
C1_ReturnedSpansCover ==
    ChunkVideoReturned => Covers(video_chunks, duration)

\* C1, amended: the spans the walk builds are contiguous, non-overlapping
\* and have union [0, D); the returned chunks are those with at least one
\* retrieved frame, so their spans are non-empty, ascending, non-overlapping
\* and inside [0, D), and they cover [0, D) exactly when no chunk was dropped.
C1_WalkedSpansCover ==
    ChunkVideoReturned =>
        /\ Covers([i \in 1..Len(walked) |->
                      [start_time |-> walked[i][1], end_time |-> walked[i][2]]],
                  duration)
        /\ \A i \in 1..Len(video_chunks) :
              /\ 0 <= video_chunks[i].start_time
              /\ video_chunks[i].start_time < video_chunks[i].end_time
              /\ video_chunks[i].end_time <= duration
              /\ video_chunks[i].frames # <<>>
              /\ \E w \in 1..Len(walked) :
                    walked[w] = <<video_chunks[i].start_time,
                                  video_chunks[i].end_time>>
        /\ \A i \in 1..(Len(video_chunks) - 1) :
              video_chunks[i].end_time <= video_chunks[i + 1].start_time
        /\ (Len(video_chunks) = Len(walked)
                <=> Covers(video_chunks, duration))

\* a walk of three chunks of which the middle one had no frame and was dropped
C1_Witness ==
    /\ ChunkVideoReturned
    /\ Len(walked) = 3
    /\ Len(video_chunks) = 2
    /\ video_chunks[1].end_time < video_chunks[2].start_time

\* the calls of the loop that have returned and been folded
Folded == IF pc = "fold" THEN Len(results) - 1 ELSE Len(results)

\* the dialogues of the first n calls that succeeded, in order
RECURSIVE Successes(_)
Successes(n) ==
    IF n = 0 THEN <<>>
    ELSE Successes(n - 1)
            \o (IF Truthy(results[n]) THEN <<results[n]>> ELSE <<>>)

LoopEnded == pc = "done" /\ cap = "released" /\ video_chunks # <<>>

\* C3: the loop never aborts because of one chunk: when process_single_video
\* ends, a generation request has been issued for every chunk chunk_video
\* returned, and the video fails only if the final transcript is empty.
C3_EveryChunkRequested ==
    LoopEnded =>
        /\ \A j \in 1..Len(video_chunks) :
              \E r \in 1..Len(requests) : requests[r].chunk = j
        /\ result = "False" => full_transcript = <<>>

RECURSIVE ExpectedTranscript(_)
ExpectedTranscript(n) ==
    IF n = 0 THEN <<>>
    ELSE ExpectedTranscript(n - 1)
            \o (IF Truthy(results[n])
                THEN <<[timestamp |->
                           video_chunks[requests[n].chunk].start_time,
                        dialogue |-> results[n]]>>
                ELSE <<>>)

ChunkState(j) ==
    IF \E r \in 1..Len(requests) : requests[r].chunk = j
    THEN LET r == CHOOSE q \in 1..Len(requests) : requests[q].chunk = j
         IN  IF r > Len(results) THEN "RequestSent"
             ELSE IF Truthy(results[r]) THEN "Succeeded" ELSE "Failed"
    ELSE "Pending"

\* C6: every chunk goes through Pending, RequestSent and Succeeded or Failed
\* exactly once: when the loop has ended the service has been called exactly
\* one time for each chunk and each chunk is Succeeded or Failed.
C6_EachChunkCalledOnce ==
    LoopEnded =>
        \A j \in 1..Len(video_chunks) :
            /\ Cardinality({r \in 1..Len(requests) : requests[r].chunk = j})
                  = 1
            /\ ChunkState(j) \in {"Succeeded", "Failed"}

\* C7: one generation call makes at most max_retries API attempts, returns at
\* the first attempt whose response has content, and returns None once
\* max_retries attempts have failed or come back empty.
C7_BoundedAttempts ==
    /\ [](api_calls <= max_retries)
    /\ [][(pc = "attempt" /\ outcome'.kind = "text") =>
            /\ pc' = "fold"
            /\ dialogue' = DialogueOf(outcome'.text)
            /\ api_calls' = attempt + 1]_vars
    /\ [][(pc \in {"attempt", "sleep"} /\ pc' = "fold"
              /\ outcome'.kind # "text") =>
            /\ api_calls' = max_retries
            /\ dialogue' = None]_vars
    /\ [][(pc = "attempt" /\ outcome'.kind # "text"
              /\ api_calls' = max_retries) => pc' = "fold"]_vars

\* a call that gave up after three failed attempts
C7_Witness ==
    /\ pc = "fold"
    /\ max_retries = 3
    /\ api_calls = 3
    /\ outcome.kind # "text"
    /\ dialogue = None

C9_BackoffDelays ==
    /\ [][(pc = "attempt" /\ outcome'.kind \in ErrorKinds
              /\ attempt + 1 < max_retries) =>
            /\ pc' = "sleep"
            /\ attempt' = attempt
            /\ sleep_time' = IF outcome'.kind = "rate_limit"
                             THEN retry_delay * (2 ^ attempt)
                             ELSE retry_delay]_vars
    /\ [][pc = "sleep" =>
            /\ pc' = "attempt"
            /\ attempt' = attempt + 1
            /\ delays' = Append(delays, sleep_time)]_vars

\* the second attempt hit the rate limit and the call waits twice the delay
C9_Witness ==
    /\ pc = "sleep"
    /\ outcome.kind = "rate_limit"
    /\ attempt = 1
    /\ retry_delay = 2
    /\ sleep_time = 4

C11_FramesPerChunk ==
    /\ \A i \in 1..Len(chunks) :
          /\ Len(chunks[i].frames) >= 1
          /\ Len(chunks[i].frames) <= frames_per_chunk
    /\ \A i \in 1..Len(video_chunks) :
          /\ Len(video_chunks[i].frames) >= 1
          /\ Len(video_chunks[i].frames) <= frames_per_chunk

\* a returned list with a chunk of frames_per_chunk frames and a chunk of
\* fewer, from a walk that also built a chunk with no frame
C11_Witness ==
    /\ ChunkVideoReturned
    /\ frames_per_chunk = 2
    /\ Len(walked) = 3
    /\ Len(video_chunks) = 2
    /\ Len(video_chunks[1].frames) = 2
    /\ Len(video_chunks[2].frames) = 1

\* the span of the i-th chunk the walk built
SpanLength(i) == walked[i][2] - walked[i][1]

\* C12: the walk starts at t = 0 and gives each chunk the span
\* [t, min(t + chunk_duration, D)), the next chunk starting where this one
\* ends; every chunk but the last has length exactly chunk_duration and the
\* last has length at most chunk_duration. The same lengths hold for the
\* chunks of the returned list. For D = 22 s and chunk_duration = 10 s the
\* spans are [0, 10), [10, 20), [20, 22).
C12_ChunkWalkSpans ==
    /\ walked # <<>> => walked[1][1] = 0
    /\ \A i \in 1..Len(walked) :
          /\ walked[i][2] = Min(walked[i][1] + chunk_duration, duration)
          /\ SpanLength(i) <= chunk_duration
    /\ \A i \in 1..(Len(walked) - 1) :
          /\ walked[i + 1][1] = walked[i][2]
          /\ SpanLength(i) = chunk_duration
    /\ \A i \in 1..Len(video_chunks) :
          /\ video_chunks[i].end_time - video_chunks[i].start_time
                 <= chunk_duration
          /\ i < Len(video_chunks) =>
                 video_chunks[i].end_time - video_chunks[i].start_time
                     = chunk_duration
    /\ (/\ cap = "released"
        /\ video = ExampleVideo
        /\ chunk_duration = ExampleChunkDuration)
           => walked = << <<0, 10 * TicksPerSecond>>,
                          <<10 * TicksPerSecond, 20 * TicksPerSecond>>,
                          <<20 * TicksPerSecond, 22 * TicksPerSecond>> >>

\* the 22 second video was cut with chunks of 10 seconds and every chunk of
\* the walk was returned
C12_Witness ==
    /\ cap = "released"
    /\ video = ExampleVideo
    /\ chunk_duration = ExampleChunkDuration
    /\ duration = 22 * TicksPerSecond
    /\ Len(walked) = 3
    /\ Len(video_chunks) = 3
    /\ video_chunks[3].end_time - video_chunks[3].start_time
           = 2 * TicksPerSecond

\* C13: for a chunk with span [s, e) and frames_per_chunk = k the sampled
\* timestamps are s + i * (e - s) / (k + 1) for i = 1..k: strictly
\* increasing, strictly inside (s, e) and at most k in number, and the chunk
\* has no more frames than timestamps were sampled. The timestamps are
\* numerators over (k + 1) * TicksPerSecond, as are s * (k + 1) and
\* e * (k + 1).
C13_SampledTimestamps ==
    /\ Len(sampled) = Len(walked)
    /\ \A c \in 1..Len(sampled) :
          LET s == walked[c][1]
              e == walked[c][2]
              k == frames_per_chunk
          IN  /\ Len(sampled[c]) <= k
              /\ \A i \in 1..k :
                    /\ i \in DOMAIN sampled[c]
                    /\ sampled[c][i] = s * (k + 1) + i * (e - s)
                    /\ s * (k + 1) < sampled[c][i]
                    /\ sampled[c][i] < e * (k + 1)
              /\ \A i \in 1..(Len(sampled[c]) - 1) :
                    sampled[c][i] < sampled[c][i + 1]
    /\ \A i \in 1..Len(chunks) :
          \E c \in 1..Len(walked) :
             /\ walked[c] = <<chunks[i].start_time, chunks[i].end_time>>
             /\ Len(chunks[i].frames) <= Len(sampled[c])

\* a walk that sampled two timestamps in a chunk that does not start at 0
C13_Witness ==
    /\ frames_per_chunk = 2
    /\ Len(sampled) >= 2
    /\ Len(sampled[2]) = 2
    /\ walked[2][1] > 0
    /\ sampled[2][1] < sampled[2][2]

\* C14, as stated: every chunk chunk_video produces carries a duration equal
\* to end_time - start_time, the target speaking duration the loop passes
\* to the request for that chunk.
C14_ChunksCarryDuration ==
    \A i \in 1..Len(video_chunks) :
       /\ "duration" \in DOMAIN video_chunks[i]
       /\ video_chunks[i].duration
              = video_chunks[i].end_time - video_chunks[i].start_time

\* C16, as stated: chunk_video fails with a not-found error when the path
\* does not resolve to a readable stream, and with an unreadable-stream
\* error, not an empty chunk list and not an arithmetic error, when the
\* stream reports a zero frame rate or a zero duration.
C16_FailureKinds ==
    pc = "done" =>
        /\ ~video.exists => error = "FileNotFoundError"
        /\ (video.exists /\ ~video.opened)
              => error \in {"FileNotFoundError", "ValueError"}
        /\ (video.opened /\ (video.fps = 0 \/ video.total_frames = 0))
              => error = "ValueError"

\* C18: TranscriptWriter.write raises ValueError for every output extension
\* other than .txt and .json in any letter case, and then writes no
\* transcript file; for .txt and .json in any case it raises nothing and
\* writes the file.
C18_UnsupportedFormat ==
    file.ext # "none" =>
        IF file.ext \in {".txt", ".TXT", ".json", ".JSON"}
        THEN /\ error = "none"
             /\ file.form = (IF file.ext \in {".txt", ".TXT"}
                             THEN "txt" ELSE "json")
             /\ file.content # <<>>
        ELSE /\ error = "ValueError"
             /\ result = "False"
             /\ file.form = "none"
             /\ file.content = <<>>

\* write was called with a non-empty transcript and an .srt path
C18_Witness ==
    /\ pc = "done"
    /\ full_transcript # <<>>
    /\ file.ext = ".srt"
    /\ error = "ValueError"
    /\ file.form = "none"

\* every chunk of the video of call c was requested and none gave a dialogue
AllChunksFailed(c) ==
    /\ c.chunks > 0
    /\ c.requests = c.chunks
    /\ c.entries = 0

\* the videos after place j that had no transcript on disk were handed to
\* process_single_video
LaterVideosCalled(j) ==
    \A l \in (j + 1)..Len(video_files) :
       disk[l] # "old" => \E k \in 1..Len(calls) : calls[k].video = l

SegmenterFailed(c) ==
    /\ c.error \in {"FileNotFoundError", "ValueError", "ZeroDivisionError"}
    /\ c.chunks = 0

CallsReturning(r) == {i \in 1..Len(calls) : calls[i].result = r}

TextBlock(i) == requests[i].prompt[Len(requests[i].prompt)]

\* C21: the length budget of a request for a chunk of duration d > 0 is in
\* exactly one of three bands: 1 exchange for d <= 12 s, 2 exchanges for
\* 12 s < d <= 20 s, 3 exchanges for d > 20 s, each with a word ceiling of
\* floor(2.5 * d). The budget is text of the request only: whatever it is,
\* the text the API returns is cleaned and taken as the dialogue, whole.
C21_DurationBudget ==
    /\ \A i \in 1..Len(requests) :
          (requests[i].prompt # <<>> /\ requests[i].duration # <<>>
             /\ requests[i].duration[1] > 0) =>
             LET d == requests[i].duration[1]
                 g == TextBlock(i).data[1]
             IN  /\ g.exchanges \in {1, 2, 3}
                 /\ g.exchanges = 1 <=> d <= 12 * TicksPerSecond
                 /\ g.exchanges = 2 <=> (/\ 12 * TicksPerSecond < d
                                         /\ d <= 20 * TicksPerSecond)
                 /\ g.exchanges = 3 <=> d > 20 * TicksPerSecond
                 /\ 2 * TicksPerSecond * g.max_words <= 5 * d
                 /\ 5 * d < 2 * TicksPerSecond * (g.max_words + 1)
    /\ (pc = "fold" /\ outcome.kind = "text")
          => dialogue = DialogueOf(outcome.text)

\* a chunk of half a second has a budget of one word and one exchange; the
\* response of two lines and two words is taken whole
C21_Witness ==
    /\ pc = "fold"
    /\ requests[idx].duration = <<1>>
    /\ TextBlock(idx).data[1] = [exchanges |-> 1, max_words |-> 1,
                                 target |-> 1]
    /\ dialogue = <<"a", "NL", "b">>

\* C22: a transcript written by TranscriptWriter in the .json form and read
\* back with json.load gives a list equal to the one written: the same
\* entries in the same order, each with the same timestamp and dialogue.
C22_JsonRoundTrip ==
    file.form = "json" =>
        LET read == ReadJson(file.content)
        IN  /\ read.ok
            /\ Len(read.value) = Len(full_transcript)
            /\ \A i \in 1..Len(full_transcript) :
                  /\ read.value[i].timestamp = full_transcript[i].timestamp
                  /\ read.value[i].dialogue = full_transcript[i].dialogue

\* a transcript of two entries was written as .json: a dialogue of two lines
\* at 1.5 s and one of a backslash and the letter n
C22_Witness ==
    /\ pc = "done"
    /\ file.form = "json"
    /\ Len(full_transcript) = 2
    /\ full_transcript[1] = [timestamp |-> 3, dialogue |-> <<"a", "NL", "b">>]
    /\ full_transcript[2].dialogue = <<"BS", "n">>
    /\ Len(file.content) > Len(full_transcript)

\* the lines of the dialogues in ds, in order
RECURSIVE LinesOf(_)
LinesOf(ds) ==
    IF ds = <<>> THEN <<>> ELSE SplitNL(Head(ds)) \o LinesOf(Tail(ds))

\* each dialogue in ds followed by a newline, one after the other
RECURSIVE Accumulated(_)
Accumulated(ds) ==
    IF ds = <<>> THEN <<>>
    ELSE Head(ds) \o <<"NL">> \o Accumulated(Tail(ds))

\* the last n elements of a sequence
LastOf(seq, n) ==
    IF Len(seq) <= n THEN seq ELSE SubSeq(seq, Len(seq) - n + 1, Len(seq))

C24_EveryVideoHanded ==
    (main_pc = "done" /\ api_key) =>
        /\ main_error = "none"
        /\ \A j \in 1..Len(video_files) :
              disk[j] # "old" =>
                 \E k \in 1..Len(calls) : calls[k].video = j

\* the non-blank lines of a text, trimmed, whatever its line endings
TrimmedLines(text) == StripNonBlank(SplitNL(NormalizeLineEndings(text)))

\* the lines between the surrounding fence markers: without the first line
\* when it opens a fence, and then without the last line when it closes one
Unfenced(lines) ==
    IF lines # <<>> /\ StartsWithFence(Head(lines))
    THEN LET rest == Tail(lines)
         IN  IF rest # <<>> /\ StartsWithFence(rest[Len(rest)])
             THEN SubSeq(rest, 1, Len(rest) - 1)
             ELSE rest
    ELSE lines

\* every element of a occurs in b, in the order of a
RECURSIVE InOrderIn(_, _)
InOrderIn(a, b) ==
    IF a = <<>> THEN TRUE
    ELSE IF b = <<>> THEN FALSE
    ELSE IF Head(a) = Head(b) THEN InOrderIn(Tail(a), Tail(b))
    ELSE InOrderIn(a, Tail(b))

\* the lines of a cleaned text
CleanedLines(cleaned) == IF cleaned = <<>> THEN <<>> ELSE SplitNL(cleaned)

\* C25, as stated: _clean_response removes only the surrounding fence marker
\* lines. Every non-blank line of the response that is not the opening or
\* the closing fence marker is in the output, trimmed and in its order, and
\* the output has no blank line, no untrimmed line and no carriage return,
\* whether the fence is closed or not.
C25_CleanKeepsLines ==
    (pc = "done" /\ outcome.kind = "text" /\ main_pc = "none"
        /\ dialogue # None) =>
        LET out == CleanedLines(dialogue)
        IN  /\ InOrderIn(Unfenced(TrimmedLines(outcome.text)), out)
            /\ \A i \in 1..Len(out) :
                  /\ out[i] # <<>>
                  /\ Strip(out[i]) = out[i]
                  /\ \A j \in 1..Len(out[i]) : out[i][j] # "CR"

\* C26, as stated: for a non-empty frame list build returns one image block
\* per frame, the image blocks in the order of the frames, and exactly one
\* text block, placed after all the image blocks.
C26_ImageBlocksInFrameOrder ==
    \A i \in 1..Len(requests) :
       LET frames == video_chunks[requests[i].chunk].frames
           blocks == requests[i].prompt
       IN  frames # <<>> =>
              /\ Len(blocks) = Len(frames) + 1
              /\ \A j \in 1..Len(frames) :
                    /\ blocks[j].type = "image"
                    /\ blocks[j].data = <<frames[j]>>
              /\ blocks[Len(blocks)].type = "text"

\* C27: generate_dialogue reports every failure as None and raises nothing
\* to the loop that called it. With an empty frame list it returns None
\* without an API request; a call whose last attempt raised or came back
\* empty returns None; a call returns a text only when the API returned one.
\* The only exception of batch_generate is the length check made before the
\* first call.
C27_FailuresAreNone ==
    /\ [](error # "none" => (error = "ValueError" /\ requests = <<>>))
    /\ [][(pc # "pause" /\ pc' = "pause") =>
            /\ error' = "none"
            /\ video_chunks[idx].frames = <<>> =>
                  (dialogue' = None /\ api_calls' = 0 /\ pc = "batch")
            /\ outcome'.kind # "text" => dialogue' = None
            /\ dialogue' # None =>
                  (outcome'.kind = "text"
                     /\ dialogue' = CleanResponse(outcome'.text))]_vars

\* the call for a segment without frames returned None with no API request,
\* and the call for the next segment returned None after its last attempt
\* raised
C27_Witness ==
    /\ main_pc = "batch_generate"
    /\ pc = "pause"
    /\ idx = 2
    /\ video_chunks[1].frames = <<>>
    /\ results[1] = None
    /\ outcome.kind = "exception"
    /\ api_calls = max_retries
    /\ results[2] = None
    /\ error = "none"

\* C28: within one generation call a backoff delay occurs only between
\* attempts. A delay follows an attempt that raised and is not the last one,
\* and is followed by the next attempt; no delay follows a successful attempt
\* or the final attempt, so a call makes at most max_retries - 1 delays; an
\* attempt that returned an empty response is followed by the next attempt
\* with no delay.
C28_DelaysOnlyBetweenAttempts ==
    /\ [](Len(delays) + (IF pc = "sleep" THEN 1 ELSE 0) <= max_retries - 1)
    /\ [][(pc = "attempt" /\ pc' = "sleep") =>
            /\ outcome'.kind \in ErrorKinds
            /\ attempt + 1 < max_retries]_vars
    /\ [][pc = "sleep" =>
            /\ pc' = "attempt"
            /\ attempt' = attempt + 1]_vars
    /\ [][(pc = "attempt" /\ outcome'.kind \in {"text", "empty"}) =>
            /\ pc' # "sleep"
            /\ delays' = delays
            /\ sleep_time' = 0]_vars
    /\ [][(pc = "attempt" /\ outcome'.kind = "empty"
              /\ attempt + 1 < max_retries) =>
            /\ pc' = "attempt"
            /\ attempt' = attempt + 1]_vars
    /\ [][(pc = "attempt" /\ attempt + 1 = max_retries) =>
            /\ pc' = "fold"
            /\ delays' = delays]_vars

\* a call of three attempts: of the first two, one raised and was followed
\* by a delay and the other came back empty and was followed at once by the
\* next; the third raised and ended the call with no further delay
C28_Witness ==
    /\ pc = "fold"
    /\ max_retries = 3
    /\ api_calls = 3
    /\ outcome.kind \in ErrorKinds
    /\ Len(delays) = 1
    /\ dialogue = None

\* C29, as stated: when write rejects an unsupported output format, the
\* filesystem is as it was before the call: neither the output file nor its
\* parent directory has been created.
C29_RejectedWriteLeavesNothing ==
    (file.ext # "none" /\ WriterRaises(file.ext)) =>
        /\ error = "ValueError"
        /\ file.form = "none"
        /\ file.content = <<>>
        /\ ~file.dir

\* C30, as stated: every capture chunk_video opens is released before
\* chunk_video returns or raises, a zero frame rate included: the capture is
\* open only while chunk_video is at work on it.
C30_CaptureReleased ==
    cap = "open" => pc = "walk"

\* C31, as stated: the chunk walk of chunk_video terminates for every video
\* duration and every configured chunk_duration: each iteration of the while
\* loop leaves current_time strictly greater than it was and at most the
\* duration, and chunk_video comes to return or raise.
C31_WalkTerminates ==
    /\ [][(pc = "walk" /\ walked' # walked) =>
            /\ current_time' > current_time
            /\ current_time' <= duration]_vars
    /\ <>(pc \notin {"start", "walk"})

====
